---- MODULE Spec2Model ----
(***************************************************************************)
(* PropertyVectorizer (app/qdrant/propertyVectorize.py), the Qdrant upsert *)
(* helper (app/qdrant/main.py) and the two routes that vectorize           *)
(* (app/routes/qdrant.py), as state machines.                              *)
(*                                                                         *)
(* Python floats are modelled as exact rationals plus nan, inf and -inf:   *)
(* rounding and overflow of a finite result to inf are not modelled.       *)
(***************************************************************************)
EXTENDS Integers, Sequences, FiniteSets, TLC

VARIABLES
    \* ---- the feature pipeline of one record (SpecVector)
    property_data,   \* the argument of extract_features
    features,        \* what extract_features returned or raised; Pending before the call
    fit_vector,      \* the vector fit_transform builds for the record (line 178)
    tr_vector,       \* the vector transform builds for the record (line 244)
    quotient,        \* the last _safe_divide call: its arguments and its result
    \* ---- one PropertyVectorizer instance (Spec)
    target_dim,      \* self.target_dim
    scaler,          \* self.scaler: the StandardScaler's fitted attributes
    call,            \* the last method called on the instance and its batch
    ret,             \* what that call returned (vectors) or raised
    last_fit,        \* history: the parameters the last successful fit_transform computed
    \* ---- the routes and the vector store (SpecRoutes)
    properties,      \* app.properties: the listings loaded from properties.json
    collections,     \* the store: collection name -> vector size and points
    request,         \* the route of the request being served, or of the last one served
    response,        \* the last response sent
    loop,            \* the bulk-update route's locals while its loop runs
    fit_log          \* history: for each point a vectorizing route stored, the
                     \* scaler parameters its vector was normalized with

vars == <<property_data, features, fit_vector, tr_vector, quotient,
          target_dim, scaler, call, ret, last_fit,
          properties, collections, request, response, loop, fit_log>>

vectorVars == <<property_data, features, fit_vector, tr_vector, quotient>>
encoderVars == <<scaler, call, ret, last_fit>>
routeVars == <<properties, collections, request, response, loop, fit_log>>

-----------------------------------------------------------------------------
(* Python floats *)

Abs(x) == IF x < 0 THEN -x ELSE x

RECURSIVE GCD(_, _)
GCD(a, b) == IF b = 0 THEN a ELSE GCD(b, a % b)

\* the finite float n/d (d > 0), in lowest terms
Fin(n, d) == LET g == GCD(Abs(n), d) IN [k |-> "fin", n |-> n \div g, d |-> d \div g]

NaN == [k |-> "nan"]
PosInf == [k |-> "inf", s |-> 1]
NegInf == [k |-> "inf", s |-> -1]
Zero == Fin(0, 1)
One == Fin(1, 1)

IsFinite(x) == x.k = "fin"
Sign(x) == IF x.k = "inf" THEN x.s ELSE IF x.n < 0 THEN -1 ELSE IF x.n = 0 THEN 0 ELSE 1

FNeg(x) ==
    CASE x.k = "nan" -> NaN
      [] x.k = "inf" -> [k |-> "inf", s |-> -x.s]
      [] x.k = "fin" -> [k |-> "fin", n |-> -x.n, d |-> x.d]

FAdd(x, y) ==
    CASE x.k = "nan" \/ y.k = "nan" -> NaN
      [] x.k = "inf" /\ y.k = "inf" -> IF x.s = y.s THEN x ELSE NaN
      [] x.k = "inf" -> x
      [] y.k = "inf" -> y
      [] OTHER -> LET g == GCD(x.d, y.d)
                  IN Fin(x.n * (y.d \div g) + y.n * (x.d \div g), (x.d \div g) * y.d)

FSub(x, y) == FAdd(x, FNeg(y))

FMul(x, y) ==
    CASE x.k = "nan" \/ y.k = "nan" -> NaN
      [] x.k = "inf" \/ y.k = "inf" ->
            IF Sign(x) * Sign(y) = 0 THEN NaN ELSE [k |-> "inf", s |-> Sign(x) * Sign(y)]
      [] OTHER -> LET g1 == GCD(Abs(x.n), y.d)
                      g2 == GCD(Abs(y.n), x.d)
                  IN Fin((x.n \div g1) * (y.n \div g2), (x.d \div g2) * (y.d \div g1))

\* x == 0 in Python: false for nan and the infinities
IsZero(x) == x.k = "fin" /\ x.n = 0

\* Python's x / y on floats: ZeroDivisionError for y == 0
FTrueDiv(x, y) ==
    CASE IsZero(y) -> [exc |-> "ZeroDivisionError"]
      [] x.k = "nan" \/ y.k = "nan" -> NaN
      [] x.k = "inf" /\ y.k = "inf" -> NaN
      [] x.k = "inf" -> [k |-> "inf", s |-> x.s * Sign(y)]
      [] y.k = "inf" -> Zero
      [] OTHER -> FMul(x, IF y.n > 0 THEN [k |-> "fin", n |-> y.d, d |-> y.n]
                                      ELSE [k |-> "fin", n |-> -y.d, d |-> -y.n])

\* an exception raised instead of a value returned
IsExc(x) == "exc" \in DOMAIN x

\* Only({F(x) : x \in {e}}) is LET x == e IN F(x), with e evaluated once: TLC
\* evaluates a LET definition again at each of its uses
Only(S) == CHOOSE x \in S : TRUE

-----------------------------------------------------------------------------
(* JSON values as json.loads builds them *)

None == [t |-> "none"]
PyInt(n) == [t |-> "int", v |-> n]
\* an int beyond the range of a float (json.loads keeps integer literals exact)
BigInt == [t |-> "bigint"]
PyFloat(f) == [t |-> "float", f |-> f]
PyStr(s) == [t |-> "str", s |-> s]
PyBool(b) == [t |-> "bool", b |-> b]
PyList(items) == [t |-> "list", items |-> items]
PyDict(m) == [t |-> "dict", m |-> m]
EmptyDict == PyDict(<<>>)

\* dict.get(key): None for a missing key; AttributeError on what is no dict
Get(obj, key) ==
    IF obj.t # "dict" THEN [exc |-> "AttributeError"]
    ELSE IF key \in DOMAIN obj.m THEN obj.m[key] ELSE None

\* bool(value), as `or` tests it
Truthy(value) ==
    CASE value.t = "none" -> FALSE
      [] value.t = "int" -> value.v # 0
      [] value.t = "bigint" -> TRUE
      [] value.t = "float" -> ~IsZero(value.f)
      [] value.t = "str" -> value.s # ""
      [] value.t = "bool" -> value.b
      [] value.t = "list" -> value.items # <<>>
      [] value.t = "dict" -> DOMAIN value.m # {}

\* value or {}
OrEmptyDict(value) == IF Truthy(value) THEN value ELSE EmptyDict

-----------------------------------------------------------------------------
(* Python's conversions *)

\* float(s) of a str: a row per numeric literal of the model's strings, and
\* ValueError for the rest (none of them is a float literal)
ParseFloat(s) ==
    CASE s = "12" -> Fin(12, 1)
      [] s = "3" -> Fin(3, 1)
      [] s = "nan" -> NaN
      [] s = "inf" -> PosInf
      [] OTHER -> [exc |-> "ValueError"]

\* float(value)
float(value) ==
    CASE value.t = "int" -> Fin(value.v, 1)
      [] value.t = "bigint" -> [exc |-> "OverflowError"]
      [] value.t = "float" -> value.f
      [] value.t = "str" -> ParseFloat(value.s)
      [] value.t = "bool" -> IF value.b THEN One ELSE Zero
      [] OTHER -> [exc |-> "TypeError"]

\* repr of a float, for the floats the model's records hold
FloatRepr(x) ==
    CASE x.k = "nan" -> "nan"
      [] x.k = "inf" -> IF x.s > 0 THEN "inf" ELSE "-inf"
      [] x.k = "fin" /\ x.d = 1 -> ToString(x.n) \o ".0"
      [] x.k = "fin" /\ x.d = 10 /\ x.n > 0 ->
            ToString(x.n \div 10) \o "." \o ToString(x.n % 10)

\* str(value)
str(value) ==
    CASE value.t = "str" -> value.s
      [] value.t = "int" -> ToString(value.v)
      [] value.t = "float" -> FloatRepr(value.f)
      [] value.t = "bool" -> IF value.b THEN "True" ELSE "False"
      [] value.t = "list" /\ value.items = <<>> -> "[]"
      [] value.t = "list" /\ Len(value.items) = 1 /\ value.items[1].t = "int" ->
            "[" \o ToString(value.items[1].v) \o "]"
      [] value.t = "dict" /\ DOMAIN value.m = {} -> "{}"
      [] value.t = "none" -> "None"

\* the decimal digits of r/d (0 <= r < d) after the point, as a number of
\* `places` digits, with the remainder left over
RECURSIVE Digits(_, _, _, _)
Digits(r, d, places, acc) ==
    IF places = 0 THEN <<acc, r>>
    ELSE Digits((r * 10) % d, d, places - 1, acc * 10 + (r * 10) \div d)

Pad4(n) ==
    (IF n < 10 THEN "000" ELSE IF n < 100 THEN "00" ELSE IF n < 1000 THEN "0" ELSE "")
        \o ToString(n)

\* f"{x:.4f}": fixed point, four places, round half to even
Format4(x) ==
    CASE x.k = "nan" -> "nan"
      [] x.k = "inf" -> IF x.s > 0 THEN "inf" ELSE "-inf"
      [] OTHER ->
            LET a == Abs(x.n)
                dg == Digits(a % x.d, x.d, 4, 0)
                cut == (a \div x.d) * 10000 + dg[1]
                up == 2 * dg[2] > x.d \/ (2 * dg[2] = x.d /\ cut % 2 = 1)
                q == IF up THEN cut + 1 ELSE cut
            IN (IF x.n < 0 THEN "-" ELSE "") \o ToString(q \div 10000) \o "."
                   \o Pad4(q % 10000)

-----------------------------------------------------------------------------
(* PropertyVectorizer: the schema and the feature extractor *)

categorical_fields ==
    << "propertyType", "source", "assetType", "communityType",
       "facing", "apartmentType", "stage", "zone", "listingType",
       "furnishing", "status", "ageOfTheBuilding", "referredFloorNumber" >>

numerical_fields ==
    << "rent", "deposit", "maintenanceAmount", "noOfBalconies",
       "noOfBedrooms", "noOfBathrooms", "sbua", "floorNumber",
       "totalFloors", "carpetArea", "plotArea", "lat", "lng" >>

Range(seq) == {seq[i] : i \in DOMAIN seq}

_safe_get_number(value, default) ==
    IF value = None THEN default
    ELSE Only({ IF IsExc(r) /\ r.exc \in {"ValueError", "TypeError"} THEN default ELSE r
                : r \in {float(value)} })

_safe_get_string(value, default) ==
    IF value = None \/ value = PyStr("") THEN default ELSE str(value)

\* property_data.get(group) or {}
GroupOf(pd, group) ==
    Only({ IF IsExc(g) THEN g ELSE OrEmptyDict(g) : g \in {Get(pd, group)} })

\* self._safe_get_number(obj.get(key), 0)
NumberAt(obj, key) ==
    IF IsExc(obj) THEN obj
    ELSE Only({ IF IsExc(v) THEN v ELSE _safe_get_number(v, Zero) : v \in {Get(obj, key)} })

\* self._safe_get_string(property_data.get(key))
StringAt(pd, key) ==
    Only({ IF IsExc(v) THEN v ELSE _safe_get_string(v, "unknown") : v \in {Get(pd, key)} })

\* where extract_features reads each numeric feature
HolderOf(pd, field) ==
    IF field \in {"rent", "deposit", "maintenanceAmount"} THEN GroupOf(pd, "rentalInfo")
    ELSE IF field \in {"lat", "lng"} THEN GroupOf(pd, "_geoloc")
    ELSE pd

\* the feature mapping, once every number is read
FeatureSet(pd, numbers) ==
    [f \in Range(numerical_fields) \cup Range(categorical_fields) \cup {"readyToMove"} |->
        IF f = "readyToMove"
            THEN (IF Get(pd, "readyToMove") = PyBool(TRUE) THEN One ELSE Zero)
        ELSE IF f \in Range(categorical_fields) THEN StringAt(pd, f)
        ELSE numbers[CHOOSE i \in DOMAIN numerical_fields : numerical_fields[i] = f]]

\* The statements of extract_features run in the order of numerical_fields, then
\* the categorical ones, then readyToMove: the first exception ends the call.
extract_features(data) ==
    Only({ Only({ IF \E i \in DOMAIN numbers : IsExc(numbers[i])
                    THEN numbers[CHOOSE i \in DOMAIN numbers :
                                    /\ IsExc(numbers[i])
                                    /\ \A j \in 1..(i - 1) : ~IsExc(numbers[j])]
                    ELSE FeatureSet(pd, numbers)
                  : numbers \in {[i \in DOMAIN numerical_fields |->
                        NumberAt(HolderOf(pd, numerical_fields[i]), numerical_fields[i])]} })
           : pd \in {IF data = None THEN EmptyDict ELSE data} })

-----------------------------------------------------------------------------
(* The records the model feeds the vectorizer *)

\* {"noOfBedrooms": 3, "sbua": 1000, "_geoloc": {"lat": 12.9, "lng": 77.6},
\*  "pricing": {"totalAskPrice": 5000000}}
RecScenario ==
    PyDict([noOfBedrooms |-> PyInt(3), sbua |-> PyInt(1000),
            _geoloc |-> PyDict([lat |-> PyFloat(Fin(129, 10)), lng |-> PyFloat(Fin(776, 10))]),
            pricing |-> PyDict([totalAskPrice |-> PyInt(5000000)])])

\* the record of the module's example run, its lng cut to four places
RecExample ==
    PyDict([id |-> PyStr("RNA2424"), propertyType |-> PyStr("residential"),
            source |-> PyStr("CRM"),
            rentalInfo |-> PyDict([rent |-> PyInt(45000), deposit |-> PyInt(200000),
                                   maintenanceAmount |-> None]),
            assetType |-> PyStr("apartment"), noOfBalconies |-> PyInt(2),
            noOfBedrooms |-> PyInt(3), noOfBathrooms |-> PyInt(3),
            communityType |-> PyStr("gated"), facing |-> PyStr("north"),
            sbua |-> PyInt(1971), floorNumber |-> PyInt(16),
            apartmentType |-> PyStr("simplex"),
            _geoloc |-> PyDict([lat |-> PyFloat(Fin(130147942, 10000000)),
                                lng |-> PyFloat(Fin(777605, 10000))]),
            stage |-> PyStr("live"), zone |-> PyStr("East"),
            listingType |-> PyStr("rental"), furnishing |-> PyStr("semi-furnished"),
            readyToMove |-> PyBool(TRUE), status |-> PyStr("available"),
            ageOfTheBuilding |-> PyStr("1-5 years"),
            referredFloorNumber |-> PyStr("Higher Floor (10+)")])

\* a second complete listing, with small numbers
RecSmall ==
    PyDict([id |-> PyInt(7), propertyType |-> PyStr("residential"),
            rentalInfo |-> PyDict([rent |-> PyInt(45), deposit |-> PyInt(200)]),
            noOfBalconies |-> PyInt(1), noOfBedrooms |-> PyInt(2),
            noOfBathrooms |-> PyInt(1), sbua |-> PyInt(90), floorNumber |-> PyInt(1),
            totalFloors |-> PyInt(4), carpetArea |-> PyInt(70),
            _geoloc |-> PyDict([lat |-> PyInt(13), lng |-> PyFloat(Fin(775, 10))]),
            facing |-> PyStr("north"), readyToMove |-> PyBool(TRUE)])

TopLevelNumeric ==
    {"noOfBalconies", "noOfBedrooms", "noOfBathrooms", "sbua", "floorNumber",
     "totalFloors", "carpetArea", "plotArea"}
RentalNumeric == {"rent", "deposit", "maintenanceAmount"}
GeoNumeric == {"lat", "lng"}

\* null under every predeclared field, the nested ones included
RecAllNull ==
    PyDict([f \in TopLevelNumeric \cup Range(categorical_fields) \cup {"readyToMove"} |-> None]
           @@ [rentalInfo |-> PyDict([f \in RentalNumeric |-> None]),
               _geoloc |-> PyDict([f \in GeoNumeric |-> None])])

\* null under every top-level key, the two groups included
RecNullGroups ==
    PyDict([f \in TopLevelNumeric \cup Range(categorical_fields)
                    \cup {"readyToMove", "rentalInfo", "_geoloc"} |-> None])

\* what a JSON document may hold where a number is expected
NumericRawVals ==
    { None, PyInt(0), PyInt(3), PyInt(-2), BigInt, PyFloat(Fin(129, 10)),
      PyFloat(NaN), PyFloat(PosInf), PyStr(""), PyStr("abc"), PyStr("12"),
      PyStr("nan"), PyStr("inf"), PyBool(TRUE), PyList(<<>>), EmptyDict }

\* what it may hold where a string is expected
CategoricalRawVals ==
    { None, PyStr(""), PyStr("residential"), PyStr("nan"), PyInt(0), PyInt(3),
      PyFloat(Fin(129, 10)), PyFloat(NaN), PyBool(TRUE), PyBool(FALSE),
      PyList(<<>>), PyList(<<PyInt(1)>>), EmptyDict }

\* what it may hold where an object (rentalInfo, _geoloc) is expected
GroupRawVals ==
    { None, EmptyDict, PyStr(""), PyStr("abc"), PyInt(0), PyInt(5),
      PyFloat(NaN), PyBool(FALSE), PyBool(TRUE), PyList(<<>>), PyList(<<PyInt(1)>>) }

\* what it may hold under readyToMove
FlagRawVals == { None, PyBool(TRUE), PyBool(FALSE), PyInt(1), PyStr("yes"), PyStr("true") }

\* d[key] = value on a copy of the dict
With(d, key, value) == PyDict((key :> value) @@ d.m)

\* d[group][key] = value on a copy, the group made when it is missing
WithNested(d, group, key, value) ==
    LET g == IF Truthy(Get(d, group)) THEN Get(d, group) ELSE EmptyDict
    IN With(d, group, With(g, key, value))

\* a base record with one key changed
Variants(base) ==
       {With(base, f, v) : f \in TopLevelNumeric, v \in NumericRawVals}
  \cup {WithNested(base, "rentalInfo", f, v) : f \in RentalNumeric, v \in NumericRawVals}
  \cup {WithNested(base, "_geoloc", f, v) : f \in GeoNumeric, v \in NumericRawVals}
  \cup {With(base, f, v) : f \in Range(categorical_fields), v \in CategoricalRawVals}
  \cup {With(base, g, v) : g \in {"rentalInfo", "_geoloc"}, v \in GroupRawVals}
  \cup {With(base, "readyToMove", v) : v \in FlagRawVals}

\* the arguments extract_features is called with: the absent record, records, and
\* what is no record at all
RawRecords ==
    {None, EmptyDict, RecScenario, RecExample, RecSmall, RecAllNull, RecNullGroups,
     PyStr("abc"), PyList(<<>>)}
        \cup Variants(EmptyDict) \cup Variants(RecScenario)

-----------------------------------------------------------------------------
(* PropertyVectorizer: from a FeatureSet to the raw vector *)

\* hashlib.md5(s.encode()).digest() for the strings the model's records give
MD5Table ==
    "-2.0000,0.0000" :> <<240, 185, 75, 81, 52, 128, 223, 86, 40, 230, 76, 134, 34, 253, 116, 239>> @@
    "-2.0000,77.6000" :> <<33, 180, 86, 39, 15, 199, 193, 189, 194, 180, 91, 230, 48, 65, 26, 238>> @@
    "0" :> <<207, 205, 32, 132, 149, 213, 101, 239, 102, 231, 223, 249, 249, 135, 100, 218>> @@
    "0.0000,-2.0000" :> <<244, 150, 244, 49, 58, 117, 167, 73, 238, 201, 126, 72, 183, 38, 237, 96>> @@
    "0.0000,0.0000" :> <<21, 224, 105, 236, 233, 95, 234, 198, 16, 119, 122, 246, 232, 255, 225, 104>> @@
    "0.0000,1.0000" :> <<192, 253, 78, 59, 83, 30, 243, 1, 133, 215, 126, 176, 98, 101, 165, 222>> @@
    "0.0000,12.0000" :> <<16, 249, 205, 210, 166, 92, 61, 177, 19, 29, 203, 28, 243, 182, 18, 48>> @@
    "0.0000,12.9000" :> <<1, 78, 91, 10, 59, 248, 218, 158, 72, 194, 82, 157, 132, 255, 166, 96>> @@
    "0.0000,3.0000" :> <<253, 174, 38, 237, 37, 125, 157, 143, 41, 113, 212, 133, 161, 238, 191, 55>> @@
    "0.0000,77.6000" :> <<121, 120, 180, 36, 113, 154, 177, 160, 31, 58, 57, 215, 199, 86, 147, 208>> @@
    "0.0000,inf" :> <<236, 32, 162, 225, 212, 6, 62, 45, 14, 34, 130, 229, 109, 128, 191, 210>> @@
    "0.0000,nan" :> <<241, 170, 156, 206, 206, 106, 17, 110, 66, 184, 161, 157, 203, 16, 184, 114>> @@
    "1-5 years" :> <<135, 112, 52, 66, 198, 71, 63, 157, 206, 196, 212, 52, 54, 129, 244, 155>> @@
    "1.0000,0.0000" :> <<143, 187, 155, 47, 144, 19, 110, 225, 7, 29, 2, 50, 186, 66, 69, 77>> @@
    "1.0000,77.6000" :> <<209, 213, 47, 252, 177, 200, 125, 131, 53, 35, 92, 25, 223, 14, 197, 172>> @@
    "12.0000,0.0000" :> <<74, 86, 127, 69, 32, 102, 24, 207, 84, 250, 76, 191, 9, 202, 82, 251>> @@
    "12.0000,77.6000" :> <<55, 58, 191, 0, 43, 30, 178, 167, 10, 150, 249, 73, 205, 62, 66, 144>> @@
    "12.9" :> <<85, 205, 189, 191, 42, 188, 176, 249, 185, 128, 90, 34, 173, 215, 21, 104>> @@
    "12.9000,-2.0000" :> <<186, 36, 211, 147, 121, 148, 125, 235, 81, 59, 72, 192, 39, 189, 174, 137>> @@
    "12.9000,0.0000" :> <<129, 173, 189, 6, 131, 116, 149, 184, 220, 248, 231, 191, 254, 105, 176, 23>> @@
    "12.9000,1.0000" :> <<129, 8, 81, 225, 99, 193, 145, 139, 67, 246, 95, 0, 82, 27, 148, 150>> @@
    "12.9000,12.0000" :> <<253, 243, 48, 131, 152, 44, 231, 229, 216, 116, 178, 103, 210, 177, 8, 227>> @@
    "12.9000,12.9000" :> <<83, 221, 43, 83, 171, 125, 28, 84, 93, 237, 115, 64, 107, 216, 59, 87>> @@
    "12.9000,3.0000" :> <<213, 120, 96, 66, 105, 251, 145, 161, 243, 48, 70, 155, 33, 98, 170, 164>> @@
    "12.9000,77.6000" :> <<62, 77, 148, 179, 28, 225, 89, 3, 78, 23, 245, 202, 237, 64, 223, 203>> @@
    "12.9000,inf" :> <<232, 24, 190, 71, 113, 151, 40, 70, 125, 199, 45, 82, 241, 126, 135, 11>> @@
    "12.9000,nan" :> <<246, 210, 119, 111, 147, 228, 38, 146, 246, 15, 22, 136, 254, 49, 172, 250>> @@
    "13.0000,77.5000" :> <<50, 96, 128, 34, 56, 51, 58, 135, 189, 152, 133, 240, 192, 214, 148, 154>> @@
    "13.0148,77.7605" :> <<126, 130, 7, 129, 33, 116, 19, 170, 97, 52, 52, 79, 189, 195, 5, 12>> @@
    "3" :> <<236, 203, 200, 126, 75, 92, 226, 254, 40, 48, 143, 217, 242, 167, 186, 243>> @@
    "3.0000,0.0000" :> <<244, 155, 18, 126, 180, 64, 82, 17, 212, 72, 17, 156, 171, 22, 34, 199>> @@
    "3.0000,77.6000" :> <<126, 78, 29, 89, 227, 222, 66, 198, 72, 154, 199, 177, 226, 212, 35, 99>> @@
    "CRM" :> <<1, 211, 252, 202, 253, 211, 23, 183, 118, 1, 27, 253, 58, 105, 92, 231>> @@
    "East" :> <<169, 157, 198, 45, 1, 125, 4, 207, 103, 38, 101, 147, 249, 195, 118, 30>> @@
    "False" :> <<248, 50, 11, 38, 211, 10, 180, 51, 197, 165, 69, 70, 210, 31, 65, 76>> @@
    "Higher Floor (10+)" :> <<92, 103, 232, 228, 2, 33, 30, 215, 221, 209, 96, 93, 131, 23, 35, 9>> @@
    "RNA2424" :> <<202, 229, 234, 63, 129, 0, 183, 110, 169, 31, 210, 155, 136, 231, 30, 10>> @@
    "True" :> <<248, 39, 207, 70, 47, 98, 132, 141, 243, 124, 94, 30, 148, 164, 218, 116>> @@
    "[1]" :> <<53, 219, 165, 215, 85, 56, 169, 187, 224, 180, 218, 68, 34, 117, 154, 14>> @@
    "[]" :> <<215, 81, 113, 57, 136, 152, 126, 147, 49, 152, 3, 99, 226, 65, 137, 206>> @@
    "apartment" :> <<205, 33, 88, 240, 35, 255, 15, 242, 120, 223, 146, 165, 74, 38, 177, 49>> @@
    "available" :> <<228, 137, 76, 161, 103, 176, 136, 128, 191, 195, 88, 98, 241, 133, 117, 235>> @@
    "gated" :> <<6, 184, 214, 95, 151, 201, 204, 178, 230, 135, 250, 129, 29, 230, 193, 119>> @@
    "inf,0.0000" :> <<98, 115, 120, 128, 28, 118, 183, 210, 60, 46, 244, 208, 188, 114, 25, 182>> @@
    "inf,77.6000" :> <<228, 107, 147, 102, 108, 193, 238, 225, 247, 127, 211, 176, 241, 166, 135, 54>> @@
    "live" :> <<208, 219, 233, 21, 9, 29, 64, 11, 216, 238, 127, 39, 240, 121, 19, 3>> @@
    "nan" :> <<163, 210, 222, 118, 117, 85, 101, 83, 165, 240, 142, 76, 136, 210, 194, 40>> @@
    "nan,0.0000" :> <<93, 146, 178, 45, 254, 73, 116, 174, 217, 24, 150, 118, 253, 46, 56, 126>> @@
    "nan,77.6000" :> <<123, 213, 190, 10, 217, 238, 230, 2, 161, 6, 210, 66, 84, 163, 74, 18>> @@
    "north" :> <<141, 141, 20, 55, 144, 123, 202, 121, 144, 10, 197, 240, 234, 31, 92, 115>> @@
    "rental" :> <<115, 1, 192, 175, 95, 1, 225, 34, 152, 146, 155, 58, 3, 174, 226, 16>> @@
    "residential" :> <<62, 113, 182, 128, 35, 201, 234, 56, 184, 199, 210, 144, 187, 11, 177, 223>> @@
    "semi-furnished" :> <<164, 33, 189, 73, 253, 255, 158, 10, 191, 253, 251, 97, 29, 149, 2, 126>> @@
    "simplex" :> <<13, 56, 116, 38, 245, 120, 245, 36, 242, 28, 27, 255, 117, 247, 130, 19>> @@
    "unknown" :> <<173, 146, 29, 96, 72, 99, 102, 37, 136, 9, 85, 58, 61, 180, 154, 74>> @@
    "{}" :> <<153, 145, 75, 147, 43, 211, 122, 80, 185, 131, 197, 231, 201, 10, 233, 59>>

md5_digest(s) == MD5Table[s]

_categorical_to_embeddings(value, num_dims) ==
    LET hash_bytes == md5_digest(value)
    IN [i \in 1..num_dims |->
            LET byte_val == hash_bytes[((i - 1) % Len(hash_bytes)) + 1]
            IN Fin(2 * byte_val - 255, 255)]        \* byte_val / 127.5 - 1.0

_safe_divide(numerator, denominator, default) ==
    Only({ IF IsExc(num) THEN num
           ELSE IF IsExc(denom) THEN denom
           ELSE IF IsZero(denom) THEN default
           ELSE Only({ IF IsExc(q) /\ q.exc \in {"ValueError", "TypeError", "ZeroDivisionError"}
                          THEN default ELSE q
                       : q \in {FTrueDiv(num, denom)} })
           : num \in {_safe_get_number(PyFloat(numerator), Zero)},
             denom \in {_safe_get_number(PyFloat(denominator), Zero)} })

\* num_dims of the categorical embeddings and of the location embedding
CatDims == 8
LocDims == 3

\* [0.0] * n
Zeros(n) == [i \in 1..n |-> Zero]

\* fit_transform: the numeric fields, the categorical embeddings, readyToMove
FitBase(feats) ==
    [i \in DOMAIN numerical_fields |-> feats[numerical_fields[i]]]
    \o [i \in 1..(Len(categorical_fields) * CatDims) |->
            _categorical_to_embeddings(
                feats[categorical_fields[((i - 1) \div CatDims) + 1]],
                CatDims)[((i - 1) % CatDims) + 1]]
    \o <<feats["readyToMove"]>>

\* fit_transform: the derived features, appended while len(vector) < self.target_dim
FitDerived(feats) ==
    << _safe_divide(feats["rent"], feats["sbua"], Zero),
       _safe_divide(feats["rent"], feats["noOfBedrooms"], Zero),
       _safe_divide(feats["deposit"], feats["rent"], Zero),
       _safe_divide(feats["floorNumber"], feats["totalFloors"], Zero),
       _safe_divide(feats["noOfBathrooms"], feats["noOfBedrooms"], Zero),
       _safe_divide(feats["carpetArea"], feats["sbua"], Zero),
       _safe_divide(feats["plotArea"], feats["sbua"], Zero) >>
    \o _categorical_to_embeddings(
           Format4(feats["lat"]) \o "," \o Format4(feats["lng"]), LocDims)

\* FitVector with a fault: the truncation of lines 175-176 left out
FitVectorUntruncated(feats, dim) ==
    Only({ IF Len(full) < dim THEN full \o Zeros(dim - Len(full)) ELSE full
           : full \in { Only({ IF Len(vector) < dim THEN vector \o FitDerived(feats)
                                ELSE vector
                                : vector \in {FitBase(feats)} }) } })

\* FitVector with a fault: the zero padding of lines 173-174 left out
FitVectorUnpadded(feats, dim) ==
    Only({ IF Len(full) > dim THEN SubSeq(full, 1, dim) ELSE full
           : full \in { Only({ IF Len(vector) < dim THEN vector \o FitDerived(feats)
                                ELSE vector
                                : vector \in {FitBase(feats)} }) } })

\* fit_transform: the loop body, the vector of one FeatureSet
FitVector(feats, dim) ==
    Only({ IF Len(full) < dim THEN full \o Zeros(dim - Len(full))
           ELSE IF Len(full) > dim THEN SubSeq(full, 1, dim)
           ELSE full
           : full \in { Only({ IF Len(vector) < dim THEN vector \o FitDerived(feats)
                                ELSE vector
                                : vector \in {FitBase(feats)} }) } })

\* transform: the numeric fields, the categorical embeddings, readyToMove
TransformBase(feats) ==
    [i \in DOMAIN numerical_fields |-> feats[numerical_fields[i]]]
    \o [i \in 1..(Len(categorical_fields) * CatDims) |->
            _categorical_to_embeddings(
                feats[categorical_fields[((i - 1) \div CatDims) + 1]],
                CatDims)[((i - 1) % CatDims) + 1]]
    \o <<feats["readyToMove"]>>

\* transform: the derived features, appended while len(vector) < self.target_dim
TransformDerived(feats) ==
    << _safe_divide(feats["rent"], feats["sbua"], Zero),
       _safe_divide(feats["rent"], feats["noOfBedrooms"], Zero),
       _safe_divide(feats["deposit"], feats["rent"], Zero),
       _safe_divide(feats["floorNumber"], feats["totalFloors"], Zero),
       _safe_divide(feats["noOfBathrooms"], feats["noOfBedrooms"], Zero),
       _safe_divide(feats["carpetArea"], feats["sbua"], Zero),
       _safe_divide(feats["plotArea"], feats["sbua"], Zero) >>
    \o _categorical_to_embeddings(
           Format4(feats["lat"]) \o "," \o Format4(feats["lng"]), LocDims)

\* TransformVector with a fault: the derived block of lines 215-236 left out
TransformVectorUnderived(feats, dim) ==
    Only({ IF Len(vector) < dim THEN vector \o Zeros(dim - Len(vector))
           ELSE IF Len(vector) > dim THEN SubSeq(vector, 1, dim)
           ELSE vector
           : vector \in {TransformBase(feats)} })

\* transform: the loop body, the vector of one FeatureSet
TransformVector(feats, dim) ==
    Only({ IF Len(full) < dim THEN full \o Zeros(dim - Len(full))
           ELSE IF Len(full) > dim THEN SubSeq(full, 1, dim)
           ELSE full
           : full \in { Only({ IF Len(vector) < dim THEN vector \o TransformDerived(feats)
                                ELSE vector
                                : vector \in {TransformBase(feats)} }) } })

-----------------------------------------------------------------------------
(* The feature pipeline of one record, step by step *)

\* a variable not yet assigned, and a vector once it is built
Pending == [pending |-> TRUE]
IsPending(x) == "pending" \in DOMAIN x
Built(v) == [vector |-> v]

\* the target dimensionalities tried: below, at and above the 118 constructed
\* features and the 128 the derived block reaches
Dims == {1, 8, 118, 119, 125, 128, 130}

\* the (numerator, denominator) pairs fit_transform and transform divide
RatioPairs ==
    { <<"rent", "sbua">>, <<"rent", "noOfBedrooms">>, <<"deposit", "rent">>,
      <<"floorNumber", "totalFloors">>, <<"noOfBathrooms", "noOfBedrooms">>,
      <<"carpetArea", "sbua">>, <<"plotArea", "sbua">> }

EncoderIdle ==
    /\ scaler = [fitted |-> FALSE]
    /\ call = Pending
    /\ ret = Pending
    /\ last_fit = Pending

RoutesIdle ==
    /\ properties = Pending
    /\ collections = <<>>
    /\ request = Pending
    /\ response = Pending
    /\ loop = Pending
    /\ fit_log = {}

InitVector ==
    /\ property_data \in RawRecords
    /\ target_dim \in Dims
    /\ features = Pending
    /\ fit_vector = Pending
    /\ tr_vector = Pending
    /\ quotient = Pending
    /\ EncoderIdle
    /\ RoutesIdle

Extracted == ~IsPending(features) /\ ~IsExc(features)

\* features = self.extract_features(prop)
ExtractFeatures ==
    /\ IsPending(features)
    /\ features' = extract_features(property_data)
    /\ UNCHANGED <<property_data, fit_vector, tr_vector, quotient, target_dim>>
    /\ UNCHANGED <<encoderVars, routeVars>>

\* self._safe_divide(features[a], features[b])
SafeDivide ==
    /\ Extracted
    /\ IsPending(quotient) /\ IsPending(fit_vector) /\ IsPending(tr_vector)
    /\ \E p \in RatioPairs :
          quotient' = [numerator |-> features[p[1]], denominator |-> features[p[2]],
                       result |-> _safe_divide(features[p[1]], features[p[2]], Zero)]
    /\ UNCHANGED <<property_data, features, fit_vector, tr_vector, target_dim>>
    /\ UNCHANGED <<encoderVars, routeVars>>

\* the vector fit_transform appends for the record
BuildFitVector ==
    /\ Extracted
    /\ IsPending(quotient) /\ IsPending(fit_vector)
    /\ fit_vector' = Built(FitVector(features, target_dim))
    /\ UNCHANGED <<property_data, features, tr_vector, quotient, target_dim>>
    /\ UNCHANGED <<encoderVars, routeVars>>

\* the vector transform appends for the record
BuildTransformVector ==
    /\ Extracted
    /\ IsPending(quotient) /\ IsPending(tr_vector)
    /\ tr_vector' = Built(TransformVector(features, target_dim))
    /\ UNCHANGED <<property_data, features, fit_vector, quotient, target_dim>>
    /\ UNCHANGED <<encoderVars, routeVars>>

NextVector == ExtractFeatures \/ SafeDivide \/ BuildFitVector \/ BuildTransformVector

SpecVector == InitVector /\ [][NextVector]_vars

-----------------------------------------------------------------------------
(* Properties of the feature pipeline (checked under SpecVector) *)

\* the predeclared schema: 13 numeric fields, 13 categorical fields, readyToMove
Schema == Range(numerical_fields) \cup Range(categorical_fields) \cup {"readyToMove"}

\* a record as a JSON document gives it: an object, or no record at all
IsRecord(data) == data.t \in {"dict", "none"}

\* the length of the vector before the derived features, and where the seven
\* derived ratios go
BaseLen == Len(numerical_fields) + Len(categorical_fields) * CatDims + 1
RatioPositions == (BaseLen + 1)..(BaseLen + Cardinality(RatioPairs))

\* C5: whenever extract_features returns for a raw record (the absent record, the
\* empty record and the record with null in every predeclared field included),
\* the mapping's key set is exactly the predeclared schema, every numeric field is
\* a finite number (0 where the input is missing or null) and every categorical
\* field is a non-empty string ('unknown' where the input is null or "").
C5_FeatureSetFinite ==
    (IsRecord(property_data) /\ Extracted) =>
        /\ DOMAIN features = Schema
        /\ \A f \in Range(numerical_fields) :
              /\ IsFinite(features[f])
              /\ (Get(HolderOf(IF property_data = None THEN EmptyDict ELSE property_data, f), f)
                    = None) => (features[f] = Zero)
        /\ \A f \in Range(categorical_fields) :
              /\ features[f] # ""
              /\ (Get(IF property_data = None THEN EmptyDict ELSE property_data, f)
                    \in {None, PyStr("")}) => (features[f] = "unknown")

\* C6: extract_features never raises for a record, however malformed its fields
\* and its nested groups rentalInfo and _geoloc are: it returns a FeatureSet.
C6_ExtractNeverRaises ==
    (IsRecord(property_data) /\ ~IsPending(features)) =>
        (~IsExc(features) /\ DOMAIN features = Schema)

\* C7: for every numerator and denominator extract_features can produce,
\* _safe_divide returns the default 0 when the denominator is 0 and
\* numerator/denominator otherwise, never raises and never returns nan or an
\* infinity; no nan or infinity enters the raw vector through a derived ratio.
C7_SafeDivideFinite ==
    /\ ~IsPending(quotient) =>
          /\ ~IsExc(quotient.result)
          /\ IsFinite(quotient.result)
          /\ quotient.result = IF IsZero(quotient.denominator) THEN Zero
                                ELSE FTrueDiv(quotient.numerator, quotient.denominator)
    /\ ~IsPending(fit_vector) =>
          \A i \in RatioPositions \cap DOMAIN fit_vector.vector :
              IsFinite(fit_vector.vector[i])
    /\ ~IsPending(tr_vector) =>
          \A i \in RatioPositions \cap DOMAIN tr_vector.vector :
              IsFinite(tr_vector.vector[i])

\* the scenario's record met with target dimensionality 8, its raw vector built
C9_ScenarioBuilt ==
    /\ property_data = RecScenario
    /\ target_dim = 8
    /\ ~IsPending(fit_vector)

\* C9 (as the specification states it): for the scenario's record and target
\* dimensionality 8 the raw vector has 8 components and its 7th component is
\* price-per-area = 5000000/1000 = 5000.
C9_SeventhIsPricePerArea ==
    C9_ScenarioBuilt =>
        /\ Len(fit_vector.vector) = 8
        /\ fit_vector.vector[7] = Fin(5000, 1)

\* C9 (as the code has it): for the scenario's record and target dimensionality 8
\* the raw vector has 8 components, the first eight numeric fields in declared
\* order (rent, deposit, maintenanceAmount, noOfBalconies, noOfBedrooms,
\* noOfBathrooms, sbua, floorNumber): its 7th component is sbua = 1000, and the
\* pricing group is not read.
C9_SeventhIsSbua ==
    C9_ScenarioBuilt =>
        /\ fit_vector.vector =
              << Zero, Zero, Zero, Zero, Fin(3, 1), Zero, Fin(1000, 1), Zero >>
        /\ numerical_fields[7] = "sbua"
        /\ fit_vector.vector =
              FitVector(extract_features(With(RecScenario, "pricing", None)), 8)

\* both raw vectors of the record are built
C11_BothBuilt == ~IsPending(fit_vector) /\ ~IsPending(tr_vector)

\* C11: for every record and every target dimensionality the raw vector transform
\* builds is, component by component, the raw vector fit_transform builds: the
\* first target_dim components of the numeric fields in declared order, the
\* 8-wide embedding of each categorical field in declared order, readyToMove, the
\* derived ratios, the 3-wide location embedding, and zeros.
C11_SameRawVector ==
    C11_BothBuilt =>
        /\ tr_vector.vector = fit_vector.vector
        /\ Len(tr_vector.vector) = target_dim
        /\ \A i \in DOMAIN tr_vector.vector :
              tr_vector.vector[i] =
                  IF i <= Len(numerical_fields) THEN features[numerical_fields[i]]
                  ELSE IF i < BaseLen
                      THEN _categorical_to_embeddings(
                               features[categorical_fields[
                                   ((i - Len(numerical_fields) - 1) \div CatDims) + 1]],
                               CatDims)[((i - Len(numerical_fields) - 1) % CatDims) + 1]
                  ELSE IF i = BaseLen THEN features["readyToMove"]
                  ELSE IF i <= BaseLen + Cardinality(RatioPairs) + LocDims
                      THEN FitDerived(features)[i - BaseLen]
                  ELSE Zero

\* both vectors of the example listing are built and cut inside the derived
\* block, after a ratio that is not 0
C11_ExampleCutInDerived ==
    /\ C11_BothBuilt
    /\ property_data = RecExample
    /\ BaseLen < target_dim /\ target_dim < BaseLen + Cardinality(RatioPairs) + LocDims
    /\ tr_vector.vector[BaseLen + 1] # Zero

-----------------------------------------------------------------------------
(* sklearn's StandardScaler, as PropertyVectorizer uses it.  Its fitted      *)
(* attributes are mean_ and var_ (scale_ is sqrt(var_), 1 where var_ is 0);  *)
(* n_samples_seen_ is left out: nothing reads it.  nan entries are skipped   *)
(* by the statistics and stay nan; an infinite entry is rejected.            *)

Unfitted == [fitted |-> FALSE]

RECURSIVE SumFrom(_, _)
SumFrom(xs, i) == IF i > Len(xs) THEN Zero ELSE FAdd(xs[i], SumFrom(xs, i + 1))

\* the entries of column j that are not nan
RECURSIVE ColumnFrom(_, _, _)
ColumnFrom(X, j, i) ==
    IF i > Len(X) THEN <<>>
    ELSE (IF X[i][j].k = "nan" THEN <<>> ELSE <<X[i][j]>>) \o ColumnFrom(X, j, i + 1)

Column(X, j) == ColumnFrom(X, j, 1)

Square(x) == FMul(x, x)

ColumnMean(col) ==
    IF col = <<>> THEN NaN ELSE FMul(SumFrom(col, 1), Fin(1, Len(col)))

ColumnVar(col) ==
    IF col = <<>> THEN NaN
    ELSE Only({ FMul(SumFrom([i \in DOMAIN col |-> Square(FSub(col[i], m))], 1),
                     Fin(1, Len(col)))
                : m \in {ColumnMean(col)} })

HasInfinity(X) == \E i \in DOMAIN X : \E j \in DOMAIN X[i] : X[i][j].k = "inf"

\* (x - mean) / scale with scale = sqrt(var), or 1 for var = 0.  A quotient by an
\* irrational scale is kept as the pair (x - mean, var).
Standardize(x, mean, var) ==
    IF x.k = "nan" \/ mean.k = "nan" \/ var.k = "nan" THEN NaN
    ELSE Only({ IF IsZero(var) \/ IsZero(c) THEN c
                ELSE [k |-> "scaled", c |-> c, var |-> var]
                : c \in {FSub(x, mean)} })

\* scaler_fit with a fault: an empty batch is taken for a fit over no column
scaler_fit_lenient(X) ==
    IF X = <<>>
    THEN [scaler |-> [fitted |-> TRUE, mean_ |-> <<>>, var_ |-> <<>>], result |-> [ok |-> TRUE]]
    ELSE IF HasInfinity(X)
    THEN [scaler |-> Unfitted, result |-> [exc |-> "ValueError"]]
    ELSE [scaler |-> [fitted |-> TRUE,
                      mean_ |-> [j \in DOMAIN X[1] |-> ColumnMean(Column(X, j))],
                      var_ |-> [j \in DOMAIN X[1] |-> ColumnVar(Column(X, j))]],
          result |-> [ok |-> TRUE]]

\* StandardScaler.fit(X): _reset() drops what an earlier fit stored, then
\* partial_fit(X) validates X (np.array([]) is 1-D; infinity is refused) and
\* computes the statistics.  Nothing of the earlier state is read.
scaler_fit(X) ==
    IF X = <<>> \/ HasInfinity(X)
    THEN [scaler |-> Unfitted, result |-> [exc |-> "ValueError"]]
    ELSE [scaler |-> [fitted |-> TRUE,
                      mean_ |-> [j \in DOMAIN X[1] |-> ColumnMean(Column(X, j))],
                      var_ |-> [j \in DOMAIN X[1] |-> ColumnVar(Column(X, j))]],
          result |-> [ok |-> TRUE]]

\* scaler_transform with a fault: check_is_fitted left out, an unfitted scaler
\* hands the batch back as it is
scaler_transform_unchecked(sc, X) ==
    IF ~sc.fitted THEN [vectors |-> X]
    ELSE IF X = <<>> \/ HasInfinity(X) THEN [exc |-> "ValueError"]
    ELSE IF Len(X[1]) # Len(sc.mean_) THEN [exc |-> "ValueError"]
    ELSE [vectors |-> [i \in DOMAIN X |->
                          [j \in DOMAIN X[i] |-> Standardize(X[i][j], sc.mean_[j], sc.var_[j])]]]

\* scaler_transform with a fault: the statistics are taken from the batch at hand
\* instead of the stored ones
scaler_transform_refit(sc, X) ==
    IF ~sc.fitted THEN [exc |-> "NotFittedError"]
    ELSE IF X = <<>> \/ HasInfinity(X) THEN [exc |-> "ValueError"]
    ELSE IF Len(X[1]) # Len(sc.mean_) THEN [exc |-> "ValueError"]
    ELSE [vectors |-> [i \in DOMAIN X |->
                          [j \in DOMAIN X[i] |->
                              Standardize(X[i][j], ColumnMean(Column(X, j)),
                                          ColumnVar(Column(X, j)))]]]

\* StandardScaler.transform(X): check_is_fitted, validation, then the scaling
scaler_transform(sc, X) ==
    IF ~sc.fitted THEN [exc |-> "NotFittedError"]
    ELSE IF X = <<>> \/ HasInfinity(X) THEN [exc |-> "ValueError"]
    ELSE IF Len(X[1]) # Len(sc.mean_) THEN [exc |-> "ValueError"]
    ELSE [vectors |-> [i \in DOMAIN X |->
                          [j \in DOMAIN X[i] |-> Standardize(X[i][j], sc.mean_[j], sc.var_[j])]]]

\* TransformerMixin.fit_transform(X): self.fit(X).transform(X)
scaler_fit_transform(X) ==
    Only({ IF IsExc(fit.result) THEN fit
           ELSE [scaler |-> fit.scaler, result |-> scaler_transform(fit.scaler, X)]
           : fit \in {scaler_fit(X)} })

-----------------------------------------------------------------------------
(* One PropertyVectorizer instance *)

\* [self.extract_features(prop) for prop in property_list]: the first exception
\* ends the comprehension
ExtractAll(property_list) ==
    Only({ IF \E i \in DOMAIN all_features : IsExc(all_features[i])
           THEN all_features[CHOOSE i \in DOMAIN all_features :
                                /\ IsExc(all_features[i])
                                /\ \A j \in 1..(i - 1) : ~IsExc(all_features[j])]
           ELSE [all_features |-> all_features]
           : all_features \in {[i \in DOMAIN property_list |->
                                    extract_features(property_list[i])]} })

\* self.scaler as a call leaves it when it never reaches the scaler
Untouched == [untouched |-> TRUE]

\* fit_transform(property_list): what it makes of self.scaler, and what is returned
\* or raised
fit_transform(dim, property_list) ==
    Only({ IF IsExc(ex) THEN [scaler |-> Untouched, result |-> ex]
           ELSE scaler_fit_transform([i \in DOMAIN ex.all_features |->
                                        FitVector(ex.all_features[i], dim)])
           : ex \in {ExtractAll(property_list)} })

\* transform(property_list): what is returned or raised; the scaler is only read
transform(sc, dim, property_list) ==
    Only({ IF IsExc(ex) THEN ex
           ELSE scaler_transform(sc, [i \in DOMAIN ex.all_features |->
                                        TransformVector(ex.all_features[i], dim)])
           : ex \in {ExtractAll(property_list)} })

\* the records handed to an encoder: two listings, one whose rentalInfo is a
\* string, one whose sbua is Infinity
EncoderSamples ==
    << RecScenario, RecSmall,
       With(RecScenario, "rentalInfo", PyStr("abc")),
       With(RecScenario, "sbua", PyFloat(PosInf)) >>

MaxBatch == 2

\* the batches tried: every choice of at most MaxBatch samples, in the order of
\* EncoderSamples (the statistics do not depend on the order of the rows)
Batches ==
    LET idx == UNION { {s \in [1..n -> DOMAIN EncoderSamples] :
                            \A i \in 1..(n - 1) : s[i] <= s[i + 1]} : n \in 0..MaxBatch }
    IN {[i \in DOMAIN s |-> EncoderSamples[s[i]]] : s \in idx}

\* PropertyVectorizer(target_dim)
Init ==
    /\ target_dim \in Dims
    /\ scaler = Unfitted
    /\ call = Pending
    /\ ret = Pending
    /\ last_fit = Pending
    /\ property_data = Pending
    /\ features = Pending
    /\ fit_vector = Pending
    /\ tr_vector = Pending
    /\ quotient = Pending
    /\ RoutesIdle

\* fit_transform and transform over the model's dimensions, batches and fitted
\* scalers, tabulated: an entry is evaluated once, not at every step
FitTransformTable == [d \in Dims, b \in Batches |-> fit_transform(d, b)]

ScalersOf(d) == {Unfitted} \cup ({FitTransformTable[d, b].scaler : b \in Batches} \ {Untouched})

TransformTable ==
    [x \in {<<sc, d, b>> : sc \in UNION {ScalersOf(d) : d \in Dims}, d \in Dims, b \in Batches}
        |-> IF x[1] \in ScalersOf(x[2]) THEN transform(x[1], x[2], x[3]) ELSE Pending]

FitTransform ==
    \E property_list \in Batches :
        \E r \in {FitTransformTable[target_dim, property_list]} :
           /\ call' = [op |-> "fit_transform", property_list |-> property_list]
           /\ scaler' = IF r.scaler = Untouched THEN scaler ELSE r.scaler
           /\ ret' = r.result
           /\ last_fit' = IF IsExc(r.result) THEN last_fit ELSE r.scaler
           /\ UNCHANGED <<target_dim, vectorVars, routeVars>>

Transform ==
    \E property_list \in Batches :
        /\ call' = [op |-> "transform", property_list |-> property_list]
        /\ ret' = TransformTable[<<scaler, target_dim, property_list>>]
        /\ UNCHANGED <<scaler, last_fit, target_dim, vectorVars, routeVars>>

Next == FitTransform \/ Transform

Spec == Init /\ [][Next]_vars

-----------------------------------------------------------------------------
(* Properties of one PropertyVectorizer instance (checked under Spec) *)

CallIs(op) == ~IsPending(call) /\ call.op = op
Returned == ~IsPending(ret) /\ ~IsExc(ret)

\* C2: each vector fit_transform returns, and each vector transform returns on a
\* fitted encoder, has exactly target_dim components, one vector per record of the
\* batch, whether the raw vector was truncated or padded and whether or not the
\* derived block was appended.
C2_VectorsHaveTargetDim ==
    Returned =>
        /\ Len(ret.vectors) = Len(call.property_list)
        /\ \A i \in DOMAIN ret.vectors : Len(ret.vectors[i]) = target_dim

\* fit_transform has returned zero-padded vectors, longer than the 128 constructed
\* features
C2_PaddedReturned ==
    /\ CallIs("fit_transform") /\ Returned
    /\ target_dim > BaseLen + Cardinality(RatioPairs) + LocDims
    /\ Len(ret.vectors) = MaxBatch

\* C3: on an encoder on which no fit_transform has succeeded, transform on any
\* batch fails with an error instead of returning vectors, and the encoder is
\* still unfitted afterwards.
C3_TransformBeforeFitFails ==
    (IsPending(last_fit) /\ CallIs("transform")) =>
        (IsExc(ret) /\ scaler = Unfitted)

\* transform on a fresh encoder has hit the scaler's fitted check
C3_NotFittedRaised ==
    /\ IsPending(last_fit) /\ CallIs("transform")
    /\ call.property_list # <<>>
    /\ IsExc(ret) /\ ret.exc = "NotFittedError"

\* C4 (as the specification states it): after any sequence of fit_transform and
\* transform calls the stored normalization parameters are exactly those the most
\* recent successful fit_transform computed.
C4_ParamsOfLastSuccessfulFit ==
    scaler = IF IsPending(last_fit) THEN Unfitted ELSE last_fit

\* the rent column (the first) of a record's raw vector
RawRent(prop) == NumberAt(GroupOf(IF prop = None THEN EmptyDict ELSE prop, "rentalInfo"), "rent")

\* C4 (as the code has it): the stored parameters are those of the most recent
\* fit_transform that reached the scaler: the ones it computed when it succeeded,
\* none when it failed there (an empty batch, an infinite entry), even after an
\* earlier success.  A fit_transform that fails while extracting leaves them as
\* they were; transform never modifies them and normalizes with them.
C4_StoredParams ==
    /\ [](scaler.fitted => scaler = last_fit)
    /\ [][
          /\ CallIs("transform")' => (scaler' = scaler)
          /\ (CallIs("transform")' /\ Returned') =>
                (\A i \in DOMAIN ret'.vectors :
                    ret'.vectors[i][1] =
                        Standardize(RawRent(call'.property_list[i]),
                                    scaler.mean_[1], scaler.var_[1]))
          /\ (CallIs("fit_transform")' /\ Returned') =>
                (scaler'.fitted /\ scaler' = last_fit')
          /\ (CallIs("fit_transform")' /\ IsExc(ret')) =>
                (/\ last_fit' = last_fit
                 /\ scaler' = IF ret'.exc = "ValueError" THEN Unfitted ELSE scaler)
       ]_vars

\* transform has normalized a batch other than the one the encoder was fit on
C4_TransformUsedStored ==
    /\ CallIs("transform") /\ Returned
    /\ scaler = last_fit
    /\ Len(call.property_list) = 1
    /\ \E j \in DOMAIN ret.vectors[1] : ret.vectors[1][j] # Zero /\ ret.vectors[1][j] # NaN

\* C8: fit_transform called with an empty batch raises: it returns no result and
\* leaves the encoder without fitted parameters, so that a following transform
\* fails as on a fresh instance.
C8_EmptyBatchRejected ==
    /\ []((CallIs("fit_transform") /\ call.property_list = <<>>) =>
             (IsExc(ret) /\ ret.exc = "ValueError" /\ scaler = Unfitted))
    /\ [][
          (CallIs("fit_transform") /\ call.property_list = <<>> /\ CallIs("transform")') =>
              (/\ IsExc(ret')
               /\ scaler' = Unfitted
               /\ (call'.property_list \in {<<>>, <<RecScenario>>}) =>
                      (ret'.exc = "NotFittedError"))
       ]_vars

\* an empty-batch fit_transform on an encoder that was fitted before
C8_EmptyAfterFitted ==
    /\ CallIs("fit_transform") /\ call.property_list = <<>>
    /\ ~IsPending(last_fit)
    /\ IsExc(ret)

-----------------------------------------------------------------------------
(* The vector store (Qdrant) as add_property_to_qdrant calls it.  A call     *)
(* fails when the store refuses it (no such collection, a collection of that *)
(* name exists already, a vector of another size than the collection's) or   *)
(* when it is in `faults`: the calls that the connection or the service      *)
(* fails while this request is served.                                       *)

StoreOps == {"get_collection", "create_collection", "upsert"}

\* the faults of one request: none, or one of the calls
FaultSets == {{}} \cup {{op} : op \in StoreOps}

Ok == [ok |-> TRUE]
StoreError(op) == [exc |-> "StoreError", op |-> op]

\* qdrant_client.get_collection(collection)
get_collection(store, name, faults) ==
    IF "get_collection" \in faults \/ name \notin DOMAIN store
    THEN StoreError("get_collection")
    ELSE Ok

\* qdrant_client.create_collection(collection_name, VectorParams(size, COSINE))
create_collection(store, name, size, faults) ==
    IF "create_collection" \in faults \/ name \in DOMAIN store
    THEN [store |-> store, result |-> StoreError("create_collection")]
    ELSE [store |-> (name :> [size |-> size, points |-> {}]) @@ store, result |-> Ok]

\* qdrant_client.upsert(collection_name, [PointStruct(id, vector, payload)]): the
\* point replaces the one of the same id
upsert(store, name, point, faults) ==
    IF "upsert" \in faults \/ name \notin DOMAIN store
    THEN [store |-> store, result |-> StoreError("upsert")]
    ELSE IF Len(point.vector) # store[name].size
    THEN [store |-> store, result |-> StoreError("upsert")]
    ELSE [store |-> [store EXCEPT ![name].points = {q \in @ : q.id # point.id} \cup {point}],
          result |-> Ok]

\* add_property_to_qdrant with a fault: a failed upsert is caught and dropped
add_property_to_qdrant_quiet(store, id, vector, payload, collection, faults) ==
    Only({ IF ~IsExc(found)
           THEN Only({ [store |-> u.store, result |-> Ok, lookup |-> found,
                        ops |-> <<"get_collection", "upsert">>]
                       : u \in {upsert(store, collection,
                                       [id |-> id, vector |-> vector, payload |-> payload],
                                       faults)} })
           ELSE Only({ IF IsExc(c.result)
                       THEN [store |-> c.store, result |-> c.result, lookup |-> found,
                             ops |-> <<"get_collection", "create_collection">>]
                       ELSE Only({ [store |-> u.store, result |-> Ok, lookup |-> found,
                                    ops |-> <<"get_collection", "create_collection", "upsert">>]
                                   : u \in {upsert(c.store, collection,
                                                   [id |-> id, vector |-> vector,
                                                    payload |-> payload], faults)} })
                       : c \in {create_collection(store, collection, Len(vector), faults)} })
           : found \in {get_collection(store, collection, faults)} })

\* add_property_to_qdrant(id, vector, payload, collection): the store afterwards,
\* what the call returned or raised, what the lookup gave, and the store calls made
add_property_to_qdrant(store, id, vector, payload, collection, faults) ==
    Only({ IF ~IsExc(found)
           THEN Only({ [store |-> u.store, result |-> u.result, lookup |-> found,
                        ops |-> <<"get_collection", "upsert">>]
                       : u \in {upsert(store, collection,
                                       [id |-> id, vector |-> vector, payload |-> payload],
                                       faults)} })
           ELSE Only({ IF IsExc(c.result)
                       THEN [store |-> c.store, result |-> c.result, lookup |-> found,
                             ops |-> <<"get_collection", "create_collection">>]
                       ELSE Only({ [store |-> u.store, result |-> u.result, lookup |-> found,
                                    ops |-> <<"get_collection", "create_collection", "upsert">>]
                                   : u \in {upsert(c.store, collection,
                                                   [id |-> id, vector |-> vector,
                                                    payload |-> payload], faults)} })
                       : c \in {create_collection(store, collection, Len(vector), faults)} })
           : found \in {get_collection(store, collection, faults)} })

-----------------------------------------------------------------------------
(* The routes.  Requests are served one after the other: a route keeps no    *)
(* state between requests but the store's, and what a concurrent request     *)
(* does to the store between two calls shows as a refused call.              *)

\* PropertyVectorizer(): target_dim=128
DefaultTargetDim == 128

\* properties[-50:]
LastWindow == 50
LastN(seq, n) == IF Len(seq) <= n THEN seq ELSE SubSeq(seq, Len(seq) - n + 1, Len(seq))

\* collection="properties_index3"
BulkCollection == "properties_index3"

\* int(hash_obj.hexdigest()[:8], 16): the integer of the digest's first four
\* bytes, kept as the bytes when it is beyond 2^31
HexPrefixInt(digest) ==
    IF digest[1] < 128
    THEN PyInt(((digest[1] * 256 + digest[2]) * 256 + digest[3]) * 256 + digest[4])
    ELSE [t |-> "int", hex8 |-> SubSeq(digest, 1, 4)]

\* prop_id of the bulk route (lines 39-45).  The digest of str(prop), taken for
\* an id that is neither str nor int, is kept as a symbol of the record.
PointId(prop) ==
    Only({ IF id.t = "str" THEN HexPrefixInt(md5_digest(id.s))
           ELSE IF id.t \in {"int", "bigint", "bool"} THEN id
           ELSE [t |-> "int", hex8_of_str |-> prop]
           : id \in {Get(prop, "id")} })

\* what properties.json may hold: two listings (a str id and an int id), nothing,
\* a listing followed by null, one listing without id
PropertyFiles ==
    { <<With(RecScenario, "id", PyStr("RNA2424")), RecSmall>>, <<>>,
      <<RecSmall, None>>, <<RecScenario>> }

\* a request body that is no JSON document
Unparseable == [t |-> "unparseable"]

\* the bodies POSTed to /properties/vectorize: three that pass the route's
\* checks, one for each way of failing them or the vectorizer, and one whose
\* sbua is the string "nan"
VectorizeBodies ==
    { PyDict([id |-> PyInt(1), property |-> RecScenario, collection |-> PyStr("listings")]),
      PyDict([id |-> PyInt(2), property |-> RecSmall, collection |-> PyStr("listings")]),
      PyDict([id |-> PyInt(1), property |-> RecSmall, collection |-> PyStr(BulkCollection)]),
      PyDict([id |-> None, property |-> RecSmall, collection |-> PyStr("listings")]),
      PyDict([id |-> PyInt(1), property |-> EmptyDict, collection |-> PyStr("listings")]),
      PyDict([id |-> PyInt(1), property |-> PyStr("abc"), collection |-> PyStr("listings")]),
      PyDict([id |-> PyInt(1), property |-> With(RecScenario, "sbua", PyFloat(PosInf)),
              collection |-> PyStr("listings")]),
      PyDict([id |-> PyInt(1), property |-> With(RecScenario, "rentalInfo", PyStr("abc")),
              collection |-> PyStr("listings")]),
      PyDict([id |-> PyInt(2), property |-> With(RecScenario, "sbua", PyStr("nan")),
              collection |-> PyStr("listings")]),
      PyList(<<>>), Unparseable }

\* the points POSTed to /properties
AddPoints ==
    { [id |-> PyInt(1), payload |-> EmptyDict, vector |-> v, collection |-> "listings"] :
        v \in {None, PyList(<<One, Zero>>)} }

\* the batches the routes fit a fresh PropertyVectorizer on
RouteBatches ==
    {LastN(file, LastWindow) : file \in PropertyFiles}
    \cup {<<Get(body, "property")>> : body \in {b \in VectorizeBodies : b.t = "dict"}}

\* PropertyVectorizer().fit_transform(batch), tabulated over these batches: an
\* entry is evaluated once, not at every step
RouteFitTable == [batch \in RouteBatches |-> fit_transform(DefaultTargetDim, batch)]

\* the record of a point's normalization, the point's earlier record replaced
Logged(log, collection, id, norm) ==
    {e \in log : ~(e.collection = collection /\ e.id = id)}
        \cup {[collection |-> collection, id |-> id, norm |-> norm]}

Forgotten(log, collection, id) ==
    {e \in log : ~(e.collection = collection /\ e.id = id)}

\* what is kept of an add_property_to_qdrant call: whether the collection was
\* there, the failing calls, the calls made, what the lookup gave and the outcome
StoreCall(store, collection, faults, r) ==
    [existed |-> collection \in DOMAIN store, faults |-> faults, ops |-> r.ops,
     lookup |-> r.lookup, result |-> r.result]

InitRoutes ==
    /\ properties \in PropertyFiles
    /\ collections = <<>>
    /\ request = Pending
    /\ response = Pending
    /\ loop = Pending
    /\ fit_log = {}
    /\ target_dim = DefaultTargetDim
    /\ EncoderIdle
    /\ property_data = Pending
    /\ features = Pending
    /\ fit_vector = Pending
    /\ tr_vector = Pending
    /\ quotient = Pending

\* GET /update-all-properties-from-json, lines 23-31: an exception of
\* fit_transform leaves the route (the framework answers 500)
UpdateAllStart ==
    /\ IsPending(loop)
    /\ request' = [route |-> "update_all"]
    /\ \E fit \in {RouteFitTable[LastN(properties, LastWindow)]} :
          IF IsExc(fit.result)
          THEN /\ response' = [route |-> "update_all", status |-> 500,
                               raised |-> fit.result, store_call |-> Pending]
               /\ loop' = loop
          ELSE /\ loop' = [properties_data |-> LastN(properties, LastWindow),
                           vectors |-> fit.result.vectors, norm |-> fit.scaler,
                           i |-> 1, success_count |-> 0, error_count |-> 0,
                           store_failures |-> 0, store_call |-> Pending]
               /\ response' = response
    /\ UNCHANGED <<properties, collections, fit_log, target_dim, encoderVars, vectorVars>>

\* one iteration of the loop, lines 34-58.  On an entry that is no object,
\* prop.get raises in the try and again in the handler's print: the exception
\* leaves the route.
UpdateAllIterate ==
    /\ ~IsPending(loop)
    /\ loop.i <= Len(loop.properties_data)
    /\ \E faults \in FaultSets :
        \E prop \in {loop.properties_data[loop.i]} :
          IF prop.t # "dict"
          THEN /\ response' = [route |-> "update_all", status |-> 500,
                               raised |-> [exc |-> "AttributeError"],
                               store_call |-> Pending]
               /\ loop' = Pending
               /\ UNCHANGED <<collections, fit_log>>
          ELSE \E r \in {add_property_to_qdrant(collections, PointId(prop),
                                                loop.vectors[loop.i], prop,
                                                BulkCollection, faults)} :
                  /\ collections' = r.store
                  /\ loop' = [loop EXCEPT
                                !.i = @ + 1,
                                !.success_count = IF IsExc(r.result) THEN @ ELSE @ + 1,
                                !.error_count = IF IsExc(r.result) THEN @ + 1 ELSE @,
                                !.store_failures = IF IsExc(r.result) THEN @ + 1 ELSE @,
                                !.store_call = StoreCall(collections, BulkCollection, faults, r)]
                  /\ fit_log' = IF IsExc(r.result) THEN fit_log
                                ELSE Logged(fit_log, BulkCollection, PointId(prop), loop.norm)
                  /\ response' = response
    /\ UNCHANGED <<properties, request, target_dim, encoderVars, vectorVars>>

\* the return of lines 60-65
UpdateAllReturn ==
    /\ ~IsPending(loop)
    /\ loop.i > Len(loop.properties_data)
    /\ response' = [route |-> "update_all", status |-> 200,
                    message |-> "Property update completed",
                    success |-> loop.success_count, errors |-> loop.error_count,
                    total |-> Len(loop.properties_data),
                    store_failures |-> loop.store_failures, store_call |-> loop.store_call]
    /\ loop' = Pending
    /\ UNCHANGED <<properties, collections, request, fit_log, target_dim, encoderVars, vectorVars>>

\* POST /properties/vectorize: the store afterwards, the response, and the
\* parameters the stored vector was normalized with (Pending when none was stored)
vectorize_and_add_property(store, body, faults) ==
    IF body = Unparseable \/ body.t # "dict"
    THEN [store |-> store, norm |-> Pending,
          response |-> [route |-> "vectorize", status |-> 400, store_call |-> Pending]]
    ELSE IF Get(body, "id") = None
    THEN [store |-> store, norm |-> Pending,
          response |-> [route |-> "vectorize", status |-> 422, store_call |-> Pending]]
    ELSE IF Get(body, "property").t # "dict" \/ ~Truthy(Get(body, "property"))
    THEN [store |-> store, norm |-> Pending,
          response |-> [route |-> "vectorize", status |-> 422, store_call |-> Pending]]
    ELSE Only({ IF IsExc(fit.result)
                THEN [store |-> store, norm |-> Pending,
                      response |-> [route |-> "vectorize", status |-> 500,
                                    raised |-> fit.result, store_call |-> Pending]]
                ELSE Only({ [store |-> r.store,
                             norm |-> IF IsExc(r.result) THEN Pending ELSE fit.scaler,
                             response |->
                                IF IsExc(r.result)
                                THEN [route |-> "vectorize", status |-> 500,
                                      store_call |->
                                        StoreCall(store, Get(body, "collection").s, faults, r)]
                                ELSE [route |-> "vectorize", status |-> 200,
                                      collection |-> Get(body, "collection").s,
                                      id |-> Get(body, "id"),
                                      store_call |->
                                        StoreCall(store, Get(body, "collection").s, faults, r)]]
                            : r \in {add_property_to_qdrant(
                                        store, Get(body, "id"), fit.result.vectors[1],
                                        Get(body, "property"), Get(body, "collection").s,
                                        faults)} })
                : fit \in {RouteFitTable[<<Get(body, "property")>>]} })

VectorizeAndAdd ==
    /\ IsPending(loop)
    /\ \E body \in VectorizeBodies, faults \in FaultSets :
        \E out \in {vectorize_and_add_property(collections, body, faults)} :
           /\ request' = [route |-> "vectorize"]
           /\ collections' = out.store
           /\ response' = out.response
           /\ fit_log' = IF IsPending(out.norm) THEN fit_log
                         ELSE Logged(fit_log, Get(body, "collection").s, Get(body, "id"),
                                     out.norm)
    /\ UNCHANGED <<properties, loop, target_dim, encoderVars, vectorVars>>

\* POST /properties: the store afterwards and the response
add_property(store, point, faults) ==
    IF point.vector = None
    THEN [store |-> store,
          response |-> [route |-> "add", status |-> 400, store_call |-> Pending]]
    ELSE Only({ [store |-> r.store,
                 response |-> [route |-> "add",
                               status |-> IF IsExc(r.result) THEN 500 ELSE 200,
                               store_call |-> StoreCall(store, point.collection, faults, r)]]
                : r \in {add_property_to_qdrant(store, point.id, point.vector.items,
                                                point.payload, point.collection, faults)} })

AddProperty ==
    /\ IsPending(loop)
    /\ \E point \in AddPoints, faults \in FaultSets :
        \E out \in {add_property(collections, point, faults)} :
           /\ request' = [route |-> "add"]
           /\ collections' = out.store
           /\ response' = out.response
           /\ fit_log' = IF out.response.status = 200
                         THEN Forgotten(fit_log, point.collection, point.id)
                         ELSE fit_log
    /\ UNCHANGED <<properties, loop, target_dim, encoderVars, vectorVars>>

NextRoutes ==
    UpdateAllStart \/ UpdateAllIterate \/ UpdateAllReturn \/ VectorizeAndAdd \/ AddProperty

SpecRoutes == InitRoutes /\ [][NextRoutes]_vars

-----------------------------------------------------------------------------
(* Properties of the routes (checked under SpecRoutes) *)

\* C1: every vector the bulk-update route and the vectorize-and-add route have
\* upserted into one collection was normalized with the same parameters: once
\* parameters have been fit for a collection, no later insertion into it is
\* normalized with parameters refit on another batch.
C1_OneNormalizationPerCollection ==
    \A a \in fit_log : \A b \in fit_log :
        (a.collection = b.collection) => (a.norm = b.norm)

\* the store calls recorded: the one of the last response, the one of the loop
StoreCalls ==
    (IF IsPending(response) \/ IsPending(response.store_call) THEN {}
     ELSE {response.store_call})
    \cup (IF IsPending(loop) \/ IsPending(loop.store_call) THEN {} ELSE {loop.store_call})

\* C10 (as the specification states it): every failure of a store operation
\* (lookup, creation, upsert) during add_property_to_qdrant and during the
\* bulk-update route is propagated: none is swallowed, and no operation continues
\* or reports completion after a store failure.
C10_StoreFailuresPropagate ==
    /\ \A sc \in StoreCalls : IsExc(sc.lookup) => IsExc(sc.result)
    /\ ~IsPending(loop) => loop.store_failures = 0
    /\ (~IsPending(response) /\ response.route = "update_all" /\ response.status = 200)
          => response.store_failures = 0

\* C10 (as the code has it): add_property_to_qdrant makes each store call at most
\* once; a failed lookup is caught and answered by creating the collection; a
\* failed creation or upsert is raised to the caller.  The bulk-update route
\* catches what add_property_to_qdrant raises for a record, counts it in `errors`,
\* goes on with the next record and reports completion with success + errors =
\* total; the two POST routes answer 500.
C10_StoreFailuresHandled ==
    /\ \A sc \in StoreCalls :
          /\ sc.ops \in { <<"get_collection", "upsert">>,
                          <<"get_collection", "create_collection">>,
                          <<"get_collection", "create_collection", "upsert">> }
          /\ IsExc(sc.lookup) <=> ("get_collection" \in sc.faults \/ ~sc.existed)
          /\ IsExc(sc.lookup) <=> (sc.ops[2] = "create_collection")
          /\ (IsExc(sc.lookup) /\ ("create_collection" \in sc.faults \/ sc.existed))
                => (sc.result = StoreError("create_collection"))
          /\ ("upsert" \in sc.faults /\ "upsert" \in Range(sc.ops))
                => (sc.result = StoreError("upsert"))
          /\ IsExc(sc.result) => (sc.result.op = sc.ops[Len(sc.ops)] /\ sc.result.op # "get_collection")
    /\ ~IsPending(loop) =>
          /\ loop.error_count = loop.store_failures
          /\ loop.success_count + loop.error_count = loop.i - 1
    /\ (~IsPending(response) /\ response.route = "update_all" /\ response.status = 200) =>
          /\ response.message = "Property update completed"
          /\ response.success + response.errors = response.total
          /\ response.errors = response.store_failures
    /\ (~IsPending(response) /\ response.route \in {"vectorize", "add"}
            /\ ~IsPending(response.store_call)) =>
          (response.status = IF IsExc(response.store_call.result) THEN 500 ELSE 200)

\* the bulk-update route has reported completion after a record's upsert failed
\* and a later record was stored
C10_CompletedAfterFailure ==
    /\ ~IsPending(response) /\ response.route = "update_all" /\ response.status = 200
    /\ response.errors > 0
    /\ response.success > 0
    /\ ~IsExc(response.store_call.result)

\* the point the last vectorize-and-add request stored
C12_StoredPoints ==
    IF ~IsPending(response) /\ response.route = "vectorize" /\ response.status = 200
    THEN {q \in collections[response.collection].points : q.id = response.id}
    ELSE {}

\* C12: fit_transform on a batch of exactly one record returns the all-zero vector
\* of length target_dim whatever the record contains, so every vectorize-and-add
\* request, which fits a fresh encoder on the one submitted record, upserts the
\* same all-zero vector; so does the bulk-update route over a file of one listing.
C12_SingleRecordAllZero ==
    /\ \A q \in C12_StoredPoints : q.vector = Zeros(DefaultTargetDim)
    /\ (~IsPending(loop) /\ Len(loop.properties_data) = 1) =>
          (loop.vectors = <<Zeros(DefaultTargetDim)>>)

\* a vectorize-and-add request has stored the all-zero vector for a listing
C12_ZeroVectorStored ==
    \E q \in C12_StoredPoints :
        /\ q.payload = RecSmall
        /\ q.vector = Zeros(DefaultTargetDim)

====
